---- MODULE Spec2Model ----
(***************************************************************************)
(* The kart remote control (React front end over Web Bluetooth).           *)
(*                                                                         *)
(* The repository holds two builds of the application component:           *)
(*   "Kart"  src/unnamed/part_000  (buttons, joystick, tilt, controller)   *)
(*   "App"   src/src/App.js        (buttons, controller)                   *)
(* The variable build selects which one runs; it never changes.            *)
(*                                                                         *)
(* Every handler of the component is one action.  A promise chain          *)
(* (connect, handleDisconnection) is cut at the external Web Bluetooth     *)
(* operations it awaits: the synchronous part up to the first pending      *)
(* operation is one step, and each resolution or rejection of a pending    *)
(* operation is one step that runs the continuation up to the next one.    *)
(*                                                                         *)
(* React state (steering, motorSpeed, direction) is copied to the refs the *)
(* transmitter reads by passive effects, which run after the handler that  *)
(* changed the state has returned: FlushEffects is that step.  An interval *)
(* callback is not dispatched by React, so it can run before the flush.    *)
(***************************************************************************)
EXTENDS Integers, Sequences, FiniteSets, TLC

VARIABLES
    build,                \* which source file is running
    controlMode,          \* useState: "none" is the selection screen (null)
    isConnected,          \* useState
    steering,             \* useState, -90..90
    motorSpeed,           \* useState, 0..100
    direction,            \* useState, 1 / -1 / 0
    steeringRef,          \* useRef copies read by sendingBLEinfo
    motorSpeedRef,
    directionRef,
    deviceCache,          \* deviceCacheRef.current # null
    characteristicCache,  \* characteristicCacheRef.current # null
    intervalRef,          \* intervalRef.current # null
    timers,               \* number of live setInterval(sendingBLEinfo) timers
    gattConnected,        \* device.gatt.connected
    dropListener,         \* 'gattserverdisconnected' listener is registered
    valueListener,        \* 'characteristicvaluechanged' listener is registered
    chains,               \* promise chains awaiting a Web Bluetooth operation
    chunkTimers,          \* pending setTimeout chunk writes of send
    steeringDirection,    \* steeringDirectionRef.current ("none" is null)
    steeringInterval,     \* steeringIntervalRef: an animation frame is pending
    steeringFrames,       \* frames of animateSteering requested, not yet run
                          \* nor cancelled
    sinceSteering,        \* ms from lastSteeringTimeRef.current to the last frame
    gamepadPresent,       \* navigator.getGamepads() holds a gamepad
    gamepadConnected,     \* useState
    gamepadLoopRef,       \* a frame of gamepadLoop is pending
    gamepadFrames,        \* frames of gamepadLoop requested, not yet run nor
                          \* cancelled
    smoothedSteering,     \* smoothedSteeringRef.current, in tenths of a degree
    poll,                 \* what the last frame of gamepadLoop read: gp.axes[0]
                          \* and the two triggers in hundredths, and deltaTime
    joystickActive,       \* joystickActiveRef.current
    pointer,              \* the pointer the knob follows: offsets from the
                          \* centre of the base, and the base's maxRadius
    accelEnabled,         \* useState
    accelThrottle,        \* useState
    smoothedAccel,        \* smoothedAccelRef.current, in hundredths of a degree
    tilts,                \* orientation events since the tilt screen was entered
    payload,              \* the text of the last send(data) of the transport
    wire,                 \* the chunks of it written and not yet all sent back
    inbound,              \* notification values the peripheral has yet to deliver
    readBuffer,           \* readBufferRef.current
    logs,                 \* useState: the log entries
    appended,             \* number of log() calls made so far
    journal,              \* whether the behaviour follows logs and appended
    event,                \* the handler that ran in the last step
    ops                   \* the calls that handler issued, in program order

vars == <<build, controlMode, isConnected, steering, motorSpeed, direction,
          steeringRef, motorSpeedRef, directionRef, deviceCache,
          characteristicCache, intervalRef, timers, gattConnected,
          dropListener, valueListener, chains, chunkTimers,
          steeringDirection, steeringInterval, sinceSteering, gamepadPresent,
          gamepadConnected, gamepadLoopRef, smoothedSteering, poll,
          steeringFrames, gamepadFrames,
          joystickActive,
          pointer,
          accelEnabled, accelThrottle, smoothedAccel, tilts, payload, wire, inbound,
          readBuffer, logs, appended, journal, event, ops>>

linkVars == <<deviceCache, characteristicCache, intervalRef, timers,
              gattConnected, dropListener, valueListener, chains, isConnected>>
commandVars == <<steering, motorSpeed, direction>>
refVars == <<steeringRef, motorSpeedRef, directionRef>>
buttonVars == <<steeringDirection, steeringInterval, sinceSteering,
                steeringFrames>>
gamepadVars == <<gamepadPresent, gamepadConnected, gamepadLoopRef,
                 smoothedSteering, poll, gamepadFrames>>
accelVars == <<accelEnabled, accelThrottle, smoothedAccel, tilts>>
joystickVars == <<joystickActive, pointer>>
adapterVars == <<gamepadVars, joystickVars, accelVars>>
\* the transport: the text it is asked to send, the chunks on the wire, the
\* notifications on their way back and the inbound buffer
codecVars == <<payload, wire, inbound, readBuffer>>

----------------------------------------------------------------------------
(* Bounds of the model *)

\* promise chains that may be pending at once
MaxChains == 3
\* live telemetry interval timers
MaxTimers == 2
\* how far from the centre and from the stops the button adapter is followed
MaxSteer == 4
\* longest text handed to send
MaxText == 41
\* log() calls followed
MaxAppends == 24
\* records the peripheral reports of its own
MaxReports == 2
\* orientation events followed on the tilt screen
MaxTilts == 5

(* Program constants *)
MaxWrite == 20
ChunkDelay == 100
SteerStep == 4
FrameMs == 16
SteerMax == 90
SpeedMax == 100
ServoOffset == 90
LogKeep == 20
JoyDeadzone == 5
JoyMargin == 30
PadDeadzone == 10
SmoothSpeed == 300
SmoothingPercent == 15
GammaMax == 45

Builds == {"Kart", "App"}
Modes(b) == IF b = "Kart" THEN {"buttons", "joystick", "accel", "controller"}
                          ELSE {"buttons", "controller"}
\* slider positions tried by the model
SliderValues == {0, SpeedMax}

----------------------------------------------------------------------------
(* Calls recorded in ops *)

Call(o) == [op |-> o, arg |-> "", type |-> ""]
\* log(message, type)
LogAs(m, t) == [op |-> "log", arg |-> m, type |-> t]
\* log(message)
Log(m) == LogAs(m, "")
\* writeToCharacteristic(characteristic, data) on a cached characteristic
Write(t) == [op |-> "writeValue", arg |-> t, type |-> ""]
\* the same call when the promise it returns is rejected
WriteRejected(t) == [op |-> "writeValue", arg |-> t, type |-> "rejected"]

Count(name) == Cardinality({i \in DOMAIN ops : ops[i].op = name})
Issued(name) == Count(name) > 0
Written == SelectSeq(ops, LAMBDA r : r.op = "writeValue")

----------------------------------------------------------------------------
(* The log list *)

\* log with slice(0, 20): the oldest entries are kept
logKeepOldest(prev, entry) ==
    LET all == Append(prev, entry)
    IN IF Len(all) > LogKeep THEN SubSeq(all, 1, LogKeep) ELSE all

\* setLogs(prev => [...prev, {message, type, id}].slice(-20)): the list after
\* one more entry
log(prev, entry) ==
    LET all == Append(prev, entry)
    IN IF Len(all) > LogKeep
       THEN SubSeq(all, Len(all) - LogKeep + 1, Len(all))
       ELSE all

\* the list after the log() calls among calls, the first of them being call
\* number n + 1; the id of an entry (Date.now() + Math.random() in the code)
\* is the number of the call that appended it
RECURSIVE Logged(_, _, _)
Logged(prev, n, calls) ==
    IF calls = <<>> THEN prev
    ELSE LET c == Head(calls)
         IN IF c.op = "log"
            THEN Logged(log(prev, [message |-> c.arg, type |-> c.type,
                                   id |-> n + 1]),
                        n + 1, Tail(calls))
            ELSE Logged(prev, n, Tail(calls))

\* the log() calls of a step reach the list (in the behaviours that follow it)
Journal ==
    /\ journal' = journal
    /\ IF journal
       THEN /\ logs' = Logged(logs, appended, ops')
            /\ appended' = appended
                   + Cardinality({i \in DOMAIN ops' : ops'[i].op = "log"})
       ELSE UNCHANGED <<logs, appended>>

----------------------------------------------------------------------------
(* Pending promise chains: a bag of <<chain, awaited operation>> *)

Stages == {"discover", "gattConnect", "service", "characteristic", "notify"}
ChainKeys == {"connect", "reconnect"} \X Stages
NoChains == [k \in ChainKeys |-> 0]

\* the pending chains of one kind
KindCount(c, kind) ==
    c[<<kind, "discover">>] + c[<<kind, "gattConnect">>] + c[<<kind, "service">>]
        + c[<<kind, "characteristic">>] + c[<<kind, "notify">>]
InFlight == KindCount(chains, "connect") + KindCount(chains, "reconnect")
Pending(kind, stage) == chains[<<kind, stage>>] > 0
Added(c, kind, stage) == [c EXCEPT ![<<kind, stage>>] = @ + 1]
Removed(c, kind, stage) == [c EXCEPT ![<<kind, stage>>] = @ - 1]
Moved(c, kind, from, to) == Added(Removed(c, kind, from), kind, to)
\* pending chains of connect(): each starts one interval timer when it completes
ConnectChains == KindCount(chains, "connect")
Reconnecting == KindCount(chains, "reconnect") > 0

----------------------------------------------------------------------------
(* The command and the refs the transmitter reads *)

Command == <<steering, motorSpeed, direction>>
Refs == <<steeringRef, motorSpeedRef, directionRef>>
\* a passive effect of lines 55-65 has not run yet
EffectsPending == Refs # Command

\* useEffect(() => { steeringRef.current = steering }, [steering]) and its two
\* siblings
FlushEffects ==
    /\ EffectsPending
    /\ steeringRef' = steering
    /\ motorSpeedRef' = motorSpeed
    /\ directionRef' = direction
    /\ event' = "effects"
    /\ ops' = <<>>
    /\ UNCHANGED <<build, codecVars, adapterVars, controlMode, linkVars, commandVars, chunkTimers,
                   buttonVars>>
    /\ Journal

----------------------------------------------------------------------------
(* Frame codec and transport *)

\* U+2028 LINE SEPARATOR, written "^" here: a string of the model holds
\* ASCII characters only.  (U+2029 behaves the same everywhere below.)
LS == "^"

\* (.|[\r\n]): "." is any character but \n, \r, U+2028 and U+2029
Matches(c) == c # LS

\* the length of the longest match of (.|[\r\n]){1,20} at position i, having
\* matched n characters (0 when there is no match at i)
RECURSIVE MatchLen(_, _, _)
MatchLen(data, i, n) ==
    IF n < MaxWrite /\ i + n <= Len(data) /\ Matches(SubSeq(data, i + n, i + n))
    THEN MatchLen(data, i, n + 1)
    ELSE n

\* the matches of the global regular expression from position i on
RECURSIVE ChunksFrom(_, _)
ChunksFrom(data, i) ==
    IF i > Len(data) THEN <<>>
    ELSE LET n == MatchLen(data, i, 0)
         IN IF n = 0 THEN ChunksFrom(data, i + 1)
            ELSE <<SubSeq(data, i, i + n - 1)>> \o ChunksFrom(data, i + n)

\* data.match(/(.|[\r\n]){1,20}/g)
Chunks(data) == ChunksFrom(data, 1)

\* send with the delays of its timers counted down from the last chunk
sendCountingDown(data, logging) ==
    IF data = "" \/ ~characteristicCache
    THEN [ops |-> <<>>, timers |-> <<>>]
    ELSE LET d == data \o "\n"
             chunks == Chunks(d)
             logged == IF logging THEN <<LogAs(d, "out")>> ELSE <<>>
         IN IF Len(d) > MaxWrite
            THEN [ops |-> <<Write(chunks[1])>> \o logged,
                  timers |-> [i \in 1..(Len(chunks) - 1) |->
                                 [text |-> chunks[i + 1],
                                  delay |-> (Len(chunks) - i) * ChunkDelay]]]
            ELSE [ops |-> <<Write(d)>> \o logged, timers |-> <<>>]

\* send(data, logging): the calls it issues now and the timers it schedules
send(data, logging) ==
    IF data = "" \/ ~characteristicCache
    THEN [ops |-> <<>>, timers |-> <<>>]
    ELSE LET d == data \o "\n"
             chunks == Chunks(d)
             logged == IF logging THEN <<LogAs(d, "out")>> ELSE <<>>
         IN IF Len(d) > MaxWrite
            THEN [ops |-> <<Write(chunks[1])>> \o logged,
                  timers |-> [i \in 1..(Len(chunks) - 1) |->
                                 [text |-> chunks[i + 1], delay |-> i * ChunkDelay]]]
            ELSE [ops |-> <<Write(d)>> \o logged, timers |-> <<>>]

\* sendingBLEinfo of src/src/App.js: servoAngle + ";" + speed + ";" + direction,
\* the direction sent as it is
frameApp(s, m, d) ==
    ToString(s + ServoOffset) \o ";" \o ToString(m) \o ";" \o ToString(d)

\* sendingBLEinfo that names each field of the frame
frameKartLabelled(s, m, d) ==
    LET dir == IF m = 0 THEN 0 ELSE d
    IN "angle:" \o ToString(s + ServoOffset) \o ";speed:" \o ToString(m)
           \o ";dir:" \o ToString(dir)

\* sendingBLEinfo of src/unnamed/part_000: direction 0 when the speed is 0
frameKart(s, m, d) ==
    LET dir == IF m = 0 THEN 0 ELSE d
    IN ToString(s + ServoOffset) \o ";" \o ToString(m) \o ";" \o ToString(dir)

\* the text the running build sends for a command
frame(s, m, d) == IF build = "App" THEN frameApp(s, m, d) ELSE frameKart(s, m, d)

\* sendingBLEinfo(): send(<frame of the refs>, false)
sendingBLEinfo == send(frame(steeringRef, motorSpeedRef, directionRef), FALSE)

\* the interval callback: setInterval(sendingBLEinfo, 100)
Tick ==
    /\ timers > 0
    /\ ops' = sendingBLEinfo.ops
    /\ chunkTimers' = chunkTimers \o sendingBLEinfo.timers
    /\ event' = "tick"
    /\ UNCHANGED <<build, codecVars, adapterVars, controlMode, linkVars, commandVars, refVars,
                   buttonVars>>
    /\ Journal

----------------------------------------------------------------------------
(* Connection supervisor *)

\* connectDeviceAndCacheCharacteristic without the early return for a link
\* that is already up
connectAlways(gc, cc) ==
    [ops |-> <<Log("Connecting..."), Call("gatt.connect")>>,
     stage |-> "gattConnect"]

\* connectDeviceAndCacheCharacteristic(device) followed, when it resolves at
\* once, by startNotifications: the calls issued and the operation awaited.
\* gc is device.gatt.connected, cc is characteristicCacheRef.current # null.
connectDeviceAndCacheCharacteristic(gc, cc) ==
    IF gc /\ cc
    THEN [ops |-> <<Log("Starting notifications..."), Call("startNotifications")>>,
          stage |-> "notify"]
    ELSE [ops |-> <<Log("Connecting..."), Call("gatt.connect")>>,
          stage |-> "gattConnect"]

\* The command the safety reset writes: setSteering(0); setMotorSpeed(0);
\* setDirection(1)
SafeCommand == <<0, 0, 1>>

ResetCommand ==
    /\ steering' = SafeCommand[1]
    /\ motorSpeed' = SafeCommand[2]
    /\ direction' = SafeCommand[3]

\* The connect button (shown while isConnected is false): connect() up to the
\* first pending operation.
Connect ==
    /\ controlMode # "none"
    /\ ~isConnected
    /\ ~EffectsPending
    /\ InFlight < MaxChains
    /\ timers + ConnectChains < MaxTimers
    /\ IF deviceCache
       THEN LET r == connectDeviceAndCacheCharacteristic(gattConnected,
                                                         characteristicCache)
            IN /\ ops' = r.ops
               /\ chains' = Added(chains, "connect", r.stage)
       ELSE /\ ops' = <<Log("Searching..."), Call("requestDevice")>>
            /\ chains' = Added(chains, "connect", "discover")
    /\ event' = "connect"
    /\ UNCHANGED <<build, codecVars, adapterVars, controlMode, isConnected, commandVars, refVars,
                   deviceCache, characteristicCache, intervalRef, timers,
                   gattConnected, dropListener, valueListener, chunkTimers,
                   buttonVars>>
    /\ Journal

\* navigator.bluetooth.requestDevice resolved: the .then of
\* requestBluetoothDevice, then connectDeviceAndCacheCharacteristic
DeviceSelected ==
    /\ Pending("connect", "discover")
    /\ ~EffectsPending
    /\ LET r == connectDeviceAndCacheCharacteristic(gattConnected,
                                                    characteristicCache)
       IN /\ ops' = <<Log("Found"), Call("addDropListener")>> \o r.ops
          /\ chains' = Moved(chains, "connect", "discover", r.stage)
    /\ deviceCache' = TRUE
    /\ dropListener' = TRUE
    /\ event' = "deviceSelected"
    /\ UNCHANGED <<build, codecVars, adapterVars, controlMode, isConnected, commandVars, refVars,
                   characteristicCache, intervalRef, timers, gattConnected,
                   valueListener, chunkTimers, buttonVars>>
    /\ Journal

\* device.gatt.connect() resolved: server.getPrimaryService is issued
GattConnected(kind) ==
    /\ Pending(kind, "gattConnect")
    /\ ~EffectsPending
    /\ gattConnected' = TRUE
    /\ chains' = Moved(chains, kind, "gattConnect", "service")
    /\ ops' = <<Call("getPrimaryService")>>
    /\ event' = "gattConnected"
    /\ UNCHANGED <<build, codecVars, adapterVars, controlMode, isConnected, commandVars, refVars,
                   deviceCache, characteristicCache, intervalRef, timers,
                   dropListener, valueListener, chunkTimers, buttonVars>>
    /\ Journal

\* getPrimaryService resolved: service.getCharacteristic is issued
ServiceResolved(kind) ==
    /\ Pending(kind, "service")
    /\ ~EffectsPending
    /\ gattConnected
    /\ chains' = Moved(chains, kind, "service", "characteristic")
    /\ ops' = <<Call("getCharacteristic")>>
    /\ event' = "serviceResolved"
    /\ UNCHANGED <<build, codecVars, adapterVars, controlMode, isConnected, commandVars, refVars,
                   deviceCache, characteristicCache, intervalRef, timers,
                   gattConnected, dropListener, valueListener, chunkTimers,
                   buttonVars>>
    /\ Journal

\* getCharacteristic resolved: the characteristic is cached and
\* startNotifications is issued
CharacteristicResolved(kind) ==
    /\ Pending(kind, "characteristic")
    /\ ~EffectsPending
    /\ gattConnected
    /\ characteristicCache' = TRUE
    /\ chains' = Moved(chains, kind, "characteristic", "notify")
    /\ ops' = <<Log("Connected!"), Log("Starting notifications..."),
                Call("startNotifications")>>
    /\ event' = "characteristicResolved"
    /\ UNCHANGED <<build, codecVars, adapterVars, controlMode, isConnected, commandVars, refVars,
                   deviceCache, intervalRef, timers, gattConnected,
                   dropListener, valueListener, chunkTimers, buttonVars>>
    /\ Journal

\* characteristic.startNotifications() resolved: the value listener is added;
\* connect() then sets isConnected and starts the telemetry interval, while
\* handleDisconnection has no further .then
NotificationsStarted(kind) ==
    /\ Pending(kind, "notify")
    /\ ~EffectsPending
    /\ gattConnected
    /\ valueListener' = TRUE
    /\ chains' = Removed(chains, kind, "notify")
    /\ IF kind = "connect"
       THEN /\ isConnected' = TRUE
            /\ intervalRef' = TRUE
            /\ timers' = timers + 1
            /\ ops' = <<Log("Notifications started"), Call("addValueListener"),
                        Call("setInterval")>>
       ELSE /\ ops' = <<Log("Notifications started"), Call("addValueListener")>>
            /\ UNCHANGED <<isConnected, intervalRef, timers>>
    /\ event' = "notificationsStarted"
    /\ UNCHANGED <<build, codecVars, adapterVars, controlMode, commandVars, refVars, deviceCache,
                   characteristicCache, gattConnected, dropListener,
                   chunkTimers, buttonVars>>
    /\ Journal

\* ChainFailed where the .catch of handleDisconnection only logs
ChainFailedOnlyLogs(kind, stage) ==
    /\ Pending(kind, stage)
    /\ ~EffectsPending
    /\ chains' = Removed(chains, kind, stage)
    /\ ops' = <<Log("error")>>
    /\ event' = IF kind = "reconnect" THEN "reconnectFailed" ELSE "connectFailed"
    /\ UNCHANGED <<build, codecVars, adapterVars, controlMode, commandVars, refVars, deviceCache,
                   characteristicCache, intervalRef, timers, gattConnected,
                   dropListener, valueListener, chunkTimers, buttonVars,
                   isConnected>>
    /\ Journal

\* ChainFailed where connect's .catch sits before its last .then, so a failed
\* connect still runs setIsConnected(true) and setInterval
ChainFailedThenConnected(kind, stage) ==
    /\ Pending(kind, stage)
    /\ ~EffectsPending
    /\ chains' = Removed(chains, kind, stage)
    /\ IF kind = "reconnect"
       THEN /\ isConnected' = FALSE
            /\ event' = "reconnectFailed"
            /\ ops' = <<Log("error")>>
            /\ UNCHANGED <<intervalRef, timers>>
       ELSE /\ event' = "connectFailed"
            /\ ops' = <<Log("error"), Call("setInterval")>>
            /\ isConnected' = TRUE
            /\ intervalRef' = TRUE
            /\ timers' = timers + 1
    /\ UNCHANGED <<build, codecVars, adapterVars, controlMode, commandVars, refVars, deviceCache,
                   characteristicCache, gattConnected, dropListener,
                   valueListener, chunkTimers, buttonVars>>
    /\ Journal

\* A pending operation rejected: .catch(error => log(error.toString())) of
\* connect, or the .catch of handleDisconnection, which also calls
\* setIsConnected(false)
ChainFailed(kind, stage) ==
    /\ Pending(kind, stage)
    /\ ~EffectsPending
    /\ chains' = Removed(chains, kind, stage)
    /\ ops' = <<Log("error")>>
    /\ IF kind = "reconnect"
       THEN /\ isConnected' = FALSE
            /\ event' = "reconnectFailed"
       ELSE /\ event' = "connectFailed"
            /\ UNCHANGED isConnected
    /\ UNCHANGED <<build, codecVars, adapterVars, controlMode, commandVars, refVars, deviceCache,
                   characteristicCache, intervalRef, timers, gattConnected,
                   dropListener, valueListener, chunkTimers, buttonVars>>
    /\ Journal

\* handleDisconnection(event): the listener of 'gattserverdisconnected'
handleDisconnection ==
    /\ ResetCommand
    /\ LET r == connectDeviceAndCacheCharacteristic(FALSE, characteristicCache)
       IN /\ ops' = <<Log("Connection lost!"),
                      Log("Safety: Wheels straight, speed 0"),
                      Log("Reconnecting...")>> \o r.ops
          /\ chains' = Added(chains, "reconnect", r.stage)

\* The link drops: device.gatt.connected becomes false and the browser fires
\* 'gattserverdisconnected' at the device
Drop ==
    /\ gattConnected
    /\ ~EffectsPending
    /\ gattConnected' = FALSE
    /\ IF dropListener
       THEN /\ InFlight < MaxChains
            /\ handleDisconnection
       ELSE /\ ops' = <<>>
            /\ UNCHANGED <<commandVars, chains>>
    /\ event' = IF dropListener THEN "handleDisconnection"
                 ELSE "gattserverdisconnected"
    /\ UNCHANGED <<build, codecVars, adapterVars, controlMode, isConnected, refVars, deviceCache,
                   characteristicCache, intervalRef, timers, dropListener,
                   valueListener, chunkTimers, buttonVars>>
    /\ Journal

\* const safeData of disconnect in src/src/App.js
safeDataApp == "90;0;1\n"

\* const safeData of disconnect in src/unnamed/part_000
safeData == "90;0;0\n"

\* disconnect() writes safeData: characteristicCacheRef.current is set and
\* deviceCacheRef.current?.gatt?.connected
Writable == characteristicCache /\ deviceCache /\ gattConnected

\* what becomes of the promise writeValue returns
WriteOutcomes == {"resolves", "rejects"}

\* The calls of disconnect(), in program order.  writeValue returns a promise
\* and disconnect attaches no handler to it: its try/catch sees no rejection,
\* which the runtime reports as an unhandled rejection once disconnect has
\* returned.
disconnectOps(outcome) ==
    LET writable == Writable
    IN (IF intervalRef THEN <<Call("clearInterval")>> ELSE <<>>)
       \o (IF writable
           THEN IF build = "App"
                THEN <<IF outcome = "rejects" THEN WriteRejected(safeDataApp)
                                               ELSE Write(safeDataApp),
                       Log("Sent safe state before disconnect")>>
                ELSE <<IF outcome = "rejects" THEN WriteRejected(safeData)
                                               ELSE Write(safeData),
                       Log("Sent brake state before disconnect")>>
           ELSE <<>>)
       \o (IF deviceCache
           THEN <<Log("Disconnecting..."), Call("removeDropListener")>>
                \o (IF gattConnected
                    THEN <<Call("gatt.disconnect"), Log("Disconnected")>>
                    ELSE <<>>)
           ELSE <<>>)
       \o (IF characteristicCache THEN <<Call("removeValueListener")>> ELSE <<>>)
       \o <<Log("Safety: Reset to safe state")>>
       \o (IF writable /\ outcome = "rejects"
           THEN <<Call("unhandledrejection")>>
           ELSE <<>>)

\* disconnect() without its deviceCacheRef.current = null
DisconnectKeepingDevice ==
    /\ controlMode # "none"
    /\ isConnected
    /\ ~EffectsPending
    /\ \E outcome \in WriteOutcomes :
          /\ Writable \/ outcome = "resolves"
          /\ ops' = disconnectOps(outcome)
    /\ intervalRef' = FALSE
    /\ timers' = IF intervalRef THEN timers - 1 ELSE timers
    /\ dropListener' = IF deviceCache THEN FALSE ELSE dropListener
    /\ gattConnected' = IF deviceCache THEN FALSE ELSE gattConnected
    /\ valueListener' = IF characteristicCache THEN FALSE ELSE valueListener
    /\ characteristicCache' = FALSE
    /\ isConnected' = FALSE
    /\ ResetCommand
    /\ event' = "disconnect"
    /\ UNCHANGED <<build, codecVars, adapterVars, controlMode, refVars, chains, chunkTimers, buttonVars,
                   deviceCache>>
    /\ Journal

\* The connect button while isConnected is true: disconnect()
Disconnect ==
    /\ controlMode # "none"
    /\ isConnected
    /\ ~EffectsPending
    /\ \E outcome \in WriteOutcomes :
          /\ Writable \/ outcome = "resolves"
          /\ ops' = disconnectOps(outcome)
    /\ intervalRef' = FALSE
    /\ timers' = IF intervalRef THEN timers - 1 ELSE timers
    /\ dropListener' = IF deviceCache THEN FALSE ELSE dropListener
    /\ gattConnected' = IF deviceCache THEN FALSE ELSE gattConnected
    /\ valueListener' = IF characteristicCache THEN FALSE ELSE valueListener
    /\ characteristicCache' = FALSE
    /\ deviceCache' = FALSE
    /\ isConnected' = FALSE
    /\ ResetCommand
    /\ event' = "disconnect"
    /\ UNCHANGED <<build, codecVars, adapterVars, controlMode, refVars, chains, chunkTimers, buttonVars>>
    /\ Journal

----------------------------------------------------------------------------
(* Arithmetic of the adapters *)

Abs(x) == IF x < 0 THEN -x ELSE x
Sign(x) == IF x > 0 THEN 1 ELSE IF x < 0 THEN -1 ELSE 0

\* Math.round(num / den) for den > 0: the floor of the quotient plus a half
Round(num, den) == (2 * num + den) \div (2 * den)

\* a * sqrt(q) <= b
LeSqrt(a, q, b) ==
    IF a <= 0 /\ b >= 0 THEN TRUE
    ELSE IF a > 0 /\ b < 0 THEN FALSE
    ELSE IF a > 0 THEN a * a * q <= b * b
    ELSE a * a * q >= b * b

\* Math.round(num / Math.sqrt(q)) for q > 0 and |num| <= 100 * sqrt(q)
RoundSqrt(num, q) ==
    CHOOSE n \in -(SpeedMax + 1)..(SpeedMax + 1) :
        LeSqrt(2 * n - 1, q, 2 * num) /\ ~LeSqrt(2 * n + 1, q, 2 * num)

----------------------------------------------------------------------------
(* Mode selection *)

\* no gamepad read by the loop
NoPoll == [stickX |-> 0, r2 |-> 0, l2 |-> 0, deltaTime |-> 0]

\* the joystick knob in the middle of its base, or no knob
AtRest == [dx |-> 0, dy |-> 0, maxRadius |-> 0]

\* if (ref.current) cancelAnimationFrame(ref.current) that cancels nothing
KeptPending(frames, ref) == frames

\* if (ref.current) cancelAnimationFrame(ref.current): the frame the ref
\* names is pending no longer
Cancelled(frames, ref) == IF ref /\ frames > 0 THEN frames - 1 ELSE frames

\* the effect of lines 422-434 that requests a frame on every run and has no
\* cleanup
loopEffectNoCleanup(mode, frames, ref) ==
    IF mode = "controller"
    THEN [frames |-> frames + 1, ref |-> TRUE,
          ops |-> <<Log("Controller mode active")>>]
    ELSE [frames |-> frames, ref |-> FALSE, ops |-> <<>>]

\* the effect of lines 422-434 when one of its dependencies (controlMode,
\* gamepadLoop) has changed: the cleanup of its last run cancels the frame
\* gamepadLoopRef names, then its body runs under the new controlMode
loopEffect(mode, frames, ref) ==
    LET left == IF ref /\ frames > 0 THEN frames - 1 ELSE frames
    IN IF mode = "controller"
       THEN [frames |-> left + 1, ref |-> TRUE,
             ops |-> <<Log("Controller mode active")>>]
       ELSE [frames |-> left, ref |-> FALSE, ops |-> <<>>]

\* onClick={() => setControlMode(m)} of the selection screen, with the
\* effects that depend on controlMode: in controller mode the gamepad loop is
\* started
SelectMode(m) ==
    /\ controlMode = "none"
    /\ ~EffectsPending
    /\ controlMode' = m
    /\ event' = "selectMode"
    /\ LET e == loopEffect(m, gamepadFrames, gamepadLoopRef)
       IN /\ gamepadLoopRef' = e.ref
          /\ gamepadFrames' = e.frames
          /\ ops' = e.ops
    /\ smoothedAccel' = IF m # "accel" THEN 0 ELSE smoothedAccel
    /\ UNCHANGED <<build, codecVars, linkVars, commandVars, refVars,
                   chunkTimers, buttonVars, gamepadPresent, gamepadConnected,
                   smoothedSteering, poll, joystickVars, accelEnabled,
                   accelThrottle, tilts>>
    /\ Journal

\* the Back button: setControlMode(null), and on the tilt screen
\* setAccelEnabled(false); setAccelThrottle(0).  The cleanup of the effects
\* that depend on controlMode cancels the pending frame of gamepadLoop and
\* removes the window listeners of the joystick and of the orientation
\* events; smoothedAccelRef is reset; the knob is unmounted with its screen
\* and the gamepad is no longer read.
Back ==
    /\ controlMode # "none"
    /\ ~EffectsPending
    /\ controlMode' = "none"
    /\ event' = "back"
    /\ ops' = <<>>
    /\ LET e == loopEffect("none", gamepadFrames, gamepadLoopRef)
       IN /\ gamepadLoopRef' = e.ref
          /\ gamepadFrames' = e.frames
    /\ smoothedAccel' = 0
    /\ tilts' = 0
    /\ pointer' = AtRest
    /\ poll' = NoPoll
    /\ IF controlMode = "accel"
       THEN accelEnabled' = FALSE /\ accelThrottle' = 0
       ELSE UNCHANGED <<accelEnabled, accelThrottle>>
    /\ UNCHANGED <<build, codecVars, linkVars, commandVars, refVars,
                   chunkTimers, buttonVars, gamepadPresent, gamepadConnected,
                   smoothedSteering, joystickActive>>
    /\ Journal

----------------------------------------------------------------------------
(* Button adapter *)

Max(a, b) == IF a > b THEN a ELSE b
Min(a, b) == IF a < b THEN a ELSE b

\* the steering update of startSteering and animateSteering
Steered(prev, d) ==
    IF d = "left" THEN Max(-SteerMax, prev - SteerStep)
                  ELSE Min(SteerMax, prev + SteerStep)

\* the steering values the button adapter is followed to: near the centre
\* and near the two stops
Followed(s) == Abs(s) <= MaxSteer \/ Abs(s) >= SteerMax - MaxSteer

\* startSteering(direction, e): a press on an arrow button
startSteering(d) ==
    /\ controlMode = "buttons"
    /\ ~EffectsPending
    /\ Followed(Steered(steering, d))
    /\ steeringDirection' = d
    /\ sinceSteering' = 0
    /\ steeringInterval' = TRUE
    /\ steeringFrames' = Cancelled(steeringFrames, steeringInterval) + 1
    /\ steering' = Steered(steering, d)
    /\ event' = "startSteering"
    /\ ops' = <<>>
    /\ UNCHANGED <<build, codecVars, adapterVars, controlMode, linkVars, motorSpeed, direction,
                   refVars, chunkTimers>>
    /\ Journal

\* const elapsed = timestamp - lastSteeringTimeRef.current of a frame that
\* runs gap milliseconds after the previous frame (or after the press)
Elapsed(gap) == sinceSteering + gap

\* the test of animateSteering with > in place of >=
DueLate(elapsed) == elapsed > FrameMs

\* if (elapsed >= 16)
Due(elapsed) == elapsed >= FrameMs

\* animateSteering(timestamp): the pending animation frame runs, gap
\* milliseconds after the previous one
animateSteering(gap) ==
    /\ steeringFrames > 0
    /\ ~EffectsPending
    /\ IF steeringDirection = "none"
       THEN /\ steeringFrames' = steeringFrames - 1
            /\ UNCHANGED <<steering, steeringInterval, sinceSteering>>
       ELSE /\ steeringInterval' = TRUE
            /\ steeringFrames' = steeringFrames
            /\ IF Due(Elapsed(gap))
               THEN /\ Followed(Steered(steering, steeringDirection))
                    /\ steering' = Steered(steering, steeringDirection)
                    /\ sinceSteering' = 0
               ELSE /\ sinceSteering' = Elapsed(gap)
                    /\ UNCHANGED steering
    /\ event' = "animateSteering"
    /\ ops' = <<>>
    /\ UNCHANGED <<build, codecVars, adapterVars, controlMode, linkVars, motorSpeed, direction,
                   refVars, chunkTimers, steeringDirection>>
    /\ Journal

\* stopSteering(e): release of an arrow button
stopSteering ==
    /\ controlMode = "buttons"
    /\ ~EffectsPending
    /\ steeringDirection' = "none"
    /\ steeringInterval' = FALSE
    /\ steeringFrames' = Cancelled(steeringFrames, steeringInterval)
    /\ event' = "stopSteering"
    /\ ops' = <<>>
    /\ UNCHANGED <<build, codecVars, adapterVars, controlMode, linkVars, commandVars, refVars,
                   chunkTimers, sinceSteering>>
    /\ Journal

\* resetSteering: setSteering(0)
resetSteering ==
    /\ controlMode = "buttons"
    /\ ~EffectsPending
    /\ steering' = 0
    /\ event' = "resetSteering"
    /\ ops' = <<>>
    /\ UNCHANGED <<build, codecVars, adapterVars, controlMode, linkVars, motorSpeed, direction,
                   refVars, chunkTimers, buttonVars>>
    /\ Journal

\* the speed slider: setMotorSpeed(parseInt(e.target.value))
SetMotorSpeed(v) ==
    /\ controlMode = "buttons"
    /\ ~EffectsPending
    /\ motorSpeed' = v
    /\ event' = "slider"
    /\ ops' = <<>>
    /\ UNCHANGED <<build, codecVars, adapterVars, controlMode, linkVars, steering, direction,
                   refVars, chunkTimers, buttonVars>>
    /\ Journal

\* the STOP button: setMotorSpeed(0)
Stop ==
    /\ controlMode = "buttons"
    /\ ~EffectsPending
    /\ motorSpeed' = 0
    /\ event' = "stop"
    /\ ops' = <<>>
    /\ UNCHANGED <<build, codecVars, adapterVars, controlMode, linkVars, steering, direction,
                   refVars, chunkTimers, buttonVars>>
    /\ Journal

\* the FWD/REV button: setDirection(d => d === 1 ? -1 : 1)
ToggleDirection ==
    /\ controlMode = "buttons"
    /\ ~EffectsPending
    /\ direction' = IF direction = 1 THEN -1 ELSE 1
    /\ event' = "toggleDirection"
    /\ ops' = <<>>
    /\ UNCHANGED <<build, codecVars, adapterVars, controlMode, linkVars, steering, motorSpeed,
                   refVars, chunkTimers, buttonVars>>
    /\ Journal

----------------------------------------------------------------------------
(* Joystick adapter *)

\* maxRadius = rect.width / 2 - 30 for the joystick bases tried
Radii == {70}
\* pointer positions, as offsets from the centre of the base: outside the
\* circle up and to the left, on the rim to the right, near the centre, and
\* straight down on the rim
JoystickPoints == {<<-120, -120>>, <<70, 3>>, <<2, -3>>, <<0, 70>>}

\* handleJoystickMove with >= in place of > in the deadzone tests
JoystickDeadzoneInside(dx, dy, maxRadius) ==
    LET q == dx * dx + dy * dy
        limited == q > maxRadius * maxRadius
        steerValue == IF limited THEN RoundSqrt(SteerMax * dx, q)
                                 ELSE Round(SteerMax * dx, maxRadius)
        throttleValue == IF limited THEN RoundSqrt(-SpeedMax * dy, q)
                                    ELSE Round(-SpeedMax * dy, maxRadius)
    IN IF throttleValue >= JoyDeadzone THEN <<steerValue, throttleValue, 1>>
       ELSE IF throttleValue <= -JoyDeadzone
            THEN <<steerValue, Abs(throttleValue), -1>>
       ELSE <<steerValue, 0, 0>>

\* handleJoystickMove without its "limit to circle" step
JoystickUnlimited(dx, dy, maxRadius) ==
    LET steerValue == Round(SteerMax * dx, maxRadius)
        throttleValue == Round(-SpeedMax * dy, maxRadius)
    IN IF throttleValue > JoyDeadzone THEN <<steerValue, throttleValue, 1>>
       ELSE IF throttleValue < -JoyDeadzone
            THEN <<steerValue, Abs(throttleValue), -1>>
       ELSE <<steerValue, 0, 0>>

\* handleJoystickMove(e) with the pointer at (dx, dy) from the centre: the
\* command it sets
JoystickCommand(dx, dy, maxRadius) ==
    LET q == dx * dx + dy * dy
        limited == q > maxRadius * maxRadius
        steerValue == IF limited THEN RoundSqrt(SteerMax * dx, q)
                                 ELSE Round(SteerMax * dx, maxRadius)
        throttleValue == IF limited THEN RoundSqrt(-SpeedMax * dy, q)
                                    ELSE Round(-SpeedMax * dy, maxRadius)
    IN IF throttleValue > JoyDeadzone THEN <<steerValue, throttleValue, 1>>
       ELSE IF throttleValue < -JoyDeadzone
            THEN <<steerValue, Abs(throttleValue), -1>>
       ELSE <<steerValue, 0, 0>>

\* handleJoystickStart(e): a press on the joystick base, then
\* handleJoystickMove(e)
handleJoystickStart(dx, dy, maxRadius) ==
    /\ controlMode = "joystick"
    /\ ~EffectsPending
    /\ Abs(dx) <= maxRadius + JoyMargin /\ Abs(dy) <= maxRadius + JoyMargin
    /\ joystickActive' = TRUE
    /\ pointer' = [dx |-> dx, dy |-> dy, maxRadius |-> maxRadius]
    /\ steering' = JoystickCommand(dx, dy, maxRadius)[1]
    /\ motorSpeed' = JoystickCommand(dx, dy, maxRadius)[2]
    /\ direction' = JoystickCommand(dx, dy, maxRadius)[3]
    /\ event' = "joystickStart"
    /\ ops' = <<>>
    /\ UNCHANGED <<build, codecVars, controlMode, linkVars, refVars,
                   chunkTimers, buttonVars, gamepadVars, accelVars>>
    /\ Journal

\* handleGlobalMove(e): the window's touchmove / mousemove listener
handleJoystickMove(dx, dy, maxRadius) ==
    /\ controlMode = "joystick"
    /\ ~EffectsPending
    /\ joystickActive
    /\ pointer' = [dx |-> dx, dy |-> dy, maxRadius |-> maxRadius]
    /\ steering' = JoystickCommand(dx, dy, maxRadius)[1]
    /\ motorSpeed' = JoystickCommand(dx, dy, maxRadius)[2]
    /\ direction' = JoystickCommand(dx, dy, maxRadius)[3]
    /\ event' = "joystickMove"
    /\ ops' = <<>>
    /\ UNCHANGED <<build, codecVars, controlMode, linkVars, refVars,
                   chunkTimers, buttonVars, gamepadVars, joystickActive,
                   accelVars>>
    /\ Journal

\* handleGlobalEnd(e): the window's touchend / touchcancel / mouseup listener
handleJoystickEnd ==
    /\ controlMode = "joystick"
    /\ ~EffectsPending
    /\ joystickActive
    /\ joystickActive' = FALSE
    /\ pointer' = AtRest
    /\ steering' = 0
    /\ motorSpeed' = 0
    /\ direction' = 0
    /\ event' = "joystickEnd"
    /\ ops' = <<>>
    /\ UNCHANGED <<build, codecVars, controlMode, linkVars, refVars,
                   chunkTimers, buttonVars, gamepadVars, accelVars>>
    /\ Journal

----------------------------------------------------------------------------
(* Controller adapter *)

\* gp.axes[0] and the values of gp.buttons[7] (R2) and gp.buttons[6] (L2), in
\* hundredths
Sticks == {-100, 5, 55}
Triggers == {<<0, 0>>, <<100, 0>>, <<50, 100>>}
\* milliseconds between two frames of the loop
LoopGaps == {300}

\* targetSteering for a stick position, in tenths of a degree
TargetSteering(stickX) ==
    IF Abs(stickX) > PadDeadzone THEN (stickX * SteerMax) \div 10 ELSE 0

\* maxChange = (smoothSpeed * deltaTime) / 1000, in tenths of a degree
MaxChange(deltaTime) == (SmoothSpeed * deltaTime) \div 100

\* the smoothing of gamepadLoop without the branch that lands on the target
SmoothedPastTarget(prev, stickX, deltaTime) ==
    prev + Sign(TargetSteering(stickX) - prev) * MaxChange(deltaTime)

\* smoothedSteeringRef.current after a frame, in tenths of a degree
Smoothed(prev, stickX, deltaTime) ==
    LET targetSteering == TargetSteering(stickX)
        maxChange == MaxChange(deltaTime)
        diff == targetSteering - prev
    IN IF Abs(diff) <= maxChange THEN targetSteering
       ELSE prev + Sign(diff) * maxChange

\* the effect of lines 422-434 after a handler: it runs again when the
\* handler has changed gamepadConnected, which gamepadLoop depends on
loopEffectAfter(changed, frames, ref) ==
    IF changed THEN loopEffect(controlMode, frames, ref)
    ELSE [frames |-> frames, ref |-> ref, ops |-> <<>>]

\* gamepadLoop(timestamp): a pending animation frame runs and requests the
\* next one
gamepadLoop(stickX, r2, l2, deltaTime) ==
    /\ gamepadFrames > 0
    /\ ~EffectsPending
    /\ IF gamepadPresent
       THEN /\ gamepadConnected' = TRUE
            /\ poll' = [stickX |-> stickX, r2 |-> r2, l2 |-> l2,
                        deltaTime |-> deltaTime]
            /\ smoothedSteering' = Smoothed(smoothedSteering, stickX, deltaTime)
            /\ steering' = Round(smoothedSteering', 10)
            /\ IF r2 > l2
               THEN motorSpeed' = r2 /\ direction' = 1
               ELSE IF l2 > r2
                    THEN motorSpeed' = l2 /\ direction' = -1
               ELSE /\ motorSpeed' = 0
                    /\ direction' = IF build = "App" THEN direction ELSE 0
       ELSE /\ gamepadConnected' = FALSE
            /\ poll' = NoPoll
            /\ UNCHANGED <<smoothedSteering, commandVars>>
    /\ LET e == loopEffectAfter(gamepadConnected # gamepadPresent,
                                gamepadFrames, TRUE)
       IN /\ gamepadLoopRef' = e.ref
          /\ gamepadFrames' = e.frames
          /\ ops' = e.ops
    /\ event' = "gamepadLoop"
    /\ UNCHANGED <<build, codecVars, controlMode, linkVars, refVars,
                   chunkTimers, buttonVars, gamepadPresent, joystickVars,
                   accelVars>>
    /\ Journal

\* handleGamepadConnected: the window's 'gamepadconnected' listener
handleGamepadConnected ==
    /\ ~gamepadPresent
    /\ ~EffectsPending
    /\ gamepadPresent' = TRUE
    /\ gamepadConnected' = TRUE
    /\ event' = "gamepadConnected"
    /\ LET e == loopEffectAfter(~gamepadConnected, gamepadFrames,
                                gamepadLoopRef)
       IN /\ gamepadLoopRef' = e.ref
          /\ gamepadFrames' = e.frames
          /\ ops' = <<Log("Controller connected")>> \o e.ops
    /\ UNCHANGED <<build, codecVars, controlMode, linkVars, commandVars,
                   refVars, chunkTimers, buttonVars,
                   smoothedSteering, poll, joystickVars, accelVars>>
    /\ Journal

\* handleGamepadDisconnected: the window's 'gamepaddisconnected' listener
handleGamepadDisconnected ==
    /\ gamepadPresent
    /\ ~EffectsPending
    /\ gamepadPresent' = FALSE
    /\ gamepadConnected' = FALSE
    /\ poll' = NoPoll
    /\ ResetCommand
    /\ event' = "gamepadDisconnected"
    /\ LET e == loopEffectAfter(gamepadConnected, gamepadFrames,
                                gamepadLoopRef)
       IN /\ gamepadLoopRef' = e.ref
          /\ gamepadFrames' = e.frames
          /\ ops' = <<Log("Controller disconnected")>> \o e.ops
    /\ UNCHANGED <<build, codecVars, controlMode, linkVars, refVars,
                   chunkTimers, buttonVars, smoothedSteering,
                   joystickVars, accelVars>>
    /\ Journal

----------------------------------------------------------------------------
(* Tilt adapter *)

\* event.gamma of the orientation events tried, in degrees
Gammas == {-90, 90}
\* positions of the bidirectional throttle slider tried
AccelSliderValues == {-SpeedMax, 0, 60}

\* requestAccelPermission() on a device that has orientation events
requestAccelPermission(granted) ==
    /\ controlMode = "accel"
    /\ ~accelEnabled
    /\ ~EffectsPending
    /\ accelEnabled' = granted
    /\ event' = "requestAccelPermission"
    /\ ops' = <<Log(IF granted THEN "Accelerometer enabled"
                               ELSE "Accelerometer permission denied")>>
    /\ UNCHANGED <<build, codecVars, controlMode, linkVars, commandVars,
                   refVars, chunkTimers, buttonVars, gamepadVars,
                   joystickVars, accelThrottle, smoothedAccel, tilts>>
    /\ Journal

\* smoothedAccelRef.current += (gamma - smoothedAccelRef.current) * 0.15, in
\* hundredths of a degree, rounded down to a hundredth
SmoothedAccel(prev, gamma) ==
    prev + ((gamma * 100 - prev) * SmoothingPercent) \div 100

\* handleOrientation(event): the window's 'deviceorientation' listener (the
\* phone is followed through a tilt to one side at a time)
handleOrientation(gamma) ==
    /\ controlMode = "accel"
    /\ accelEnabled
    /\ ~EffectsPending
    /\ tilts < MaxTilts
    /\ gamma * smoothedAccel >= 0
    /\ tilts' = tilts + 1
    /\ smoothedAccel' = SmoothedAccel(smoothedAccel, gamma)
    /\ LET clampedGamma == Max(-GammaMax * 100, Min(GammaMax * 100,
                                                    smoothedAccel'))
       IN steering' = Round(clampedGamma * SteerMax, GammaMax * 100)
    /\ event' = "orientation"
    /\ ops' = <<>>
    /\ UNCHANGED <<build, codecVars, controlMode, linkVars, motorSpeed,
                   direction, refVars, chunkTimers, buttonVars, gamepadVars,
                   joystickVars, accelEnabled, accelThrottle>>
    /\ Journal

\* handleAccelThrottle(value): the bidirectional throttle slider
handleAccelThrottle(value) ==
    /\ controlMode = "accel"
    /\ accelEnabled
    /\ ~EffectsPending
    /\ accelThrottle' = value
    /\ IF value > 0 THEN motorSpeed' = value /\ direction' = 1
       ELSE IF value < 0 THEN motorSpeed' = Abs(value) /\ direction' = -1
       ELSE motorSpeed' = 0 /\ direction' = 0
    /\ event' = "accelThrottle"
    /\ ops' = <<>>
    /\ UNCHANGED <<build, codecVars, controlMode, linkVars, steering, refVars,
                   chunkTimers, buttonVars, gamepadVars, joystickVars,
                   accelEnabled, smoothedAccel, tilts>>
    /\ Journal

----------------------------------------------------------------------------
(* The application *)

\* elapsed times tried for an animation frame
FrameGaps == {FrameMs - 8, FrameMs}

Init ==
    /\ build \in Builds
    /\ controlMode = "none"
    /\ isConnected = FALSE
    /\ steering = 0
    /\ motorSpeed = 0
    /\ direction = 1
    /\ steeringRef = 0
    /\ motorSpeedRef = 0
    /\ directionRef = 1
    /\ deviceCache = FALSE
    /\ characteristicCache = FALSE
    /\ intervalRef = FALSE
    /\ timers = 0
    /\ gattConnected = FALSE
    /\ dropListener = FALSE
    /\ valueListener = FALSE
    /\ chains = NoChains
    /\ chunkTimers = <<>>
    /\ steeringDirection = "none"
    /\ steeringInterval = FALSE
    /\ steeringFrames = 0
    /\ sinceSteering = 0
    /\ gamepadPresent = FALSE
    /\ gamepadConnected = FALSE
    /\ gamepadLoopRef = FALSE
    /\ gamepadFrames = 0
    /\ smoothedSteering = 0
    /\ poll = NoPoll
    /\ joystickActive = FALSE
    /\ pointer = AtRest
    /\ accelEnabled = FALSE
    /\ accelThrottle = 0
    /\ smoothedAccel = 0
    /\ tilts = 0
    /\ payload = ""
    /\ wire = <<>>
    /\ inbound = <<>>
    /\ readBuffer = ""
    /\ logs = <<>>
    /\ appended = 0
    /\ journal = FALSE
    /\ event = "init"
    /\ ops = <<>>

LinkNext ==
    \/ Connect
    \/ DeviceSelected
    \/ \E kind \in {"connect", "reconnect"} :
          \/ GattConnected(kind)
          \/ ServiceResolved(kind)
          \/ CharacteristicResolved(kind)
          \/ NotificationsStarted(kind)
          \/ \E stage \in Stages : ChainFailed(kind, stage)
    \/ Drop
    \/ Disconnect
    \/ Tick
    \/ FlushEffects

ButtonNext ==
    \/ \E d \in {"left", "right"} : startSteering(d)
    \/ \E gap \in FrameGaps : animateSteering(gap)
    \/ stopSteering
    \/ resetSteering
    \/ \E v \in SliderValues : SetMotorSpeed(v)
    \/ Stop
    \/ ToggleDirection

JoystickNext ==
    \/ \E pt \in JoystickPoints, r \in Radii : handleJoystickStart(pt[1], pt[2], r)
    \/ \E pt \in JoystickPoints, r \in Radii : handleJoystickMove(pt[1], pt[2], r)
    \/ handleJoystickEnd

GamepadNext ==
    \/ \E stickX \in Sticks, t \in Triggers, deltaTime \in LoopGaps :
          gamepadLoop(stickX, t[1], t[2], deltaTime)
    \/ handleGamepadConnected
    \/ handleGamepadDisconnected

AccelNext ==
    \/ \E granted \in BOOLEAN : requestAccelPermission(granted)
    \/ \E gamma \in Gammas : handleOrientation(gamma)
    \/ \E value \in AccelSliderValues : handleAccelThrottle(value)

\* The connection lifecycle with the telemetry transmitter, driven from the
\* throttle controls of the button screen
Next ==
    \/ LinkNext
    \/ \E m \in Modes(build) : SelectMode(m)
    \/ \E v \in SliderValues : SetMotorSpeed(v)
    \/ ToggleDirection

Spec == Init /\ [][Next]_vars

\* The operation a reconnect chain awaits at a stage settles: it resolves
\* and the next .then runs, or it rejects and the .catch runs
SettleReconnect(stage) ==
    \/ stage = "gattConnect" /\ GattConnected("reconnect")
    \/ stage = "service" /\ ServiceResolved("reconnect")
    \/ stage = "characteristic" /\ CharacteristicResolved("reconnect")
    \/ stage = "notify" /\ NotificationsStarted("reconnect")
    \/ ChainFailed("reconnect", stage)

\* The connection lifecycle, with the direction switch as the one input
LiveNext ==
    \/ LinkNext
    \/ \E m \in Modes(build) : SelectMode(m)
    \/ ToggleDirection

\* The lifecycle where React runs the pending effects and every operation
\* awaited by handleDisconnection's chain is settled by the browser.  A
\* promise reaction runs whether or not a render is in progress, hence strong
\* fairness.
LiveSpec ==
    /\ Init /\ [][LiveNext]_vars
    /\ WF_vars(FlushEffects)
    /\ \A stage \in Stages \ {"discover"} : SF_vars(SettleReconnect(stage))

----------------------------------------------------------------------------
(* The link transport on a connected link: send with any text, the chunk   *)
(* timers it schedules, and the inbound decoder fed by the peripheral      *)
(* echoing what was written                                                *)

\* the log() calls of a connect request that succeeds
connectLog ==
    <<Log("Searching..."), Log("Found"), Log("Connecting..."), Log("Connected!"),
      Log("Starting notifications..."), Log("Notifications started")>>

\* String.prototype.trim strips white space and line terminators
WhiteSpace == {" ", "\t", "\n", "\r", "\f", LS}

RECURSIVE TrimStart(_)
TrimStart(t) ==
    IF t # "" /\ SubSeq(t, 1, 1) \in WhiteSpace
    THEN TrimStart(SubSeq(t, 2, Len(t)))
    ELSE t

RECURSIVE TrimEnd(_)
TrimEnd(t) ==
    IF t # "" /\ SubSeq(t, Len(t), Len(t)) \in WhiteSpace
    THEN TrimEnd(SubSeq(t, 1, Len(t) - 1))
    ELSE t

\* trimStart in the place of trim
TrimStartOnly(t) == TrimStart(t)

Trim(t) == TrimEnd(TrimStart(t))

\* for (const c of value) of handleCharacteristicValueChanged, from character
\* i on: the buffer left and the records handed to receive
RECURSIVE Decoded(_, _, _, _)
Decoded(value, i, buffer, records) ==
    IF i > Len(value) THEN [buffer |-> buffer, records |-> records]
    ELSE LET c == SubSeq(value, i, i)
         IN IF c = "\n"
            THEN Decoded(value, i + 1, "",
                         IF Trim(buffer) # "" THEN Append(records, Trim(buffer))
                                              ELSE records)
            ELSE Decoded(value, i + 1, buffer \o c, records)

handleCharacteristicValueChanged(value) == Decoded(value, 1, readBuffer, <<>>)

\* receive(data): log(data, 'in')
receive(record) == LogAs(record, "in")

\* a 'characteristicvaluechanged' event with the next notification value
Notify ==
    /\ inbound # <<>>
    /\ valueListener
    /\ LET r == handleCharacteristicValueChanged(Head(inbound))
       IN /\ readBuffer' = r.buffer
          /\ ops' = [i \in DOMAIN r.records |-> receive(r.records[i])]
    /\ inbound' = Tail(inbound)
    /\ wire' = IF Tail(inbound) = <<>> THEN <<>> ELSE wire
    /\ event' = "notify"
    /\ UNCHANGED <<build, adapterVars, controlMode, linkVars, commandVars, refVars,
                   chunkTimers, buttonVars, payload>>
    /\ Journal

\* the writes among calls that reach the peripheral
Delivered(calls) ==
    IF gattConnected
    THEN [i \in DOMAIN SelectSeq(calls, LAMBDA r : r.op = "writeValue") |->
             SelectSeq(calls, LAMBDA r : r.op = "writeValue")[i].arg]
    ELSE <<>>

\* send(payload): a caller hands the text to the transport, one frame at a
\* time (the frame before it has come back, or the link is closed)
SendText ==
    /\ chunkTimers = <<>>
    /\ inbound = <<>>
    /\ wire = <<>> \/ ~characteristicCache
    /\ appended < MaxAppends
    /\ ops' = send(payload, TRUE).ops
    /\ chunkTimers' = send(payload, TRUE).timers
    /\ wire' = wire \o Delivered(send(payload, TRUE).ops)
    /\ event' = "send"
    /\ UNCHANGED <<build, adapterVars, controlMode, linkVars, commandVars, refVars,
                   buttonVars, payload, inbound, readBuffer>>
    /\ Journal

Without(seq, i) == SubSeq(seq, 1, i - 1) \o SubSeq(seq, i + 1, Len(seq))

\* The setTimeout callback of send that is due first runs:
\* writeToCharacteristic(characteristicCacheRef.current, chunks[i]), which
\* throws a TypeError when the ref is null by then
ChunkTimerFired ==
    /\ \E i \in DOMAIN chunkTimers :
          /\ \A j \in DOMAIN chunkTimers :
                \/ chunkTimers[i].delay < chunkTimers[j].delay
                \/ (chunkTimers[i].delay = chunkTimers[j].delay /\ i <= j)
          /\ ops' = IF characteristicCache THEN <<Write(chunkTimers[i].text)>>
                                           ELSE <<Call("TypeError")>>
          /\ chunkTimers' = Without(chunkTimers, i)
    /\ wire' = wire \o Delivered(ops')
    /\ event' = "chunkTimer"
    /\ UNCHANGED <<build, adapterVars, controlMode, linkVars, commandVars, refVars,
                   buttonVars, payload, inbound, readBuffer>>
    /\ Journal

RECURSIVE Concat(_)
Concat(chunks) ==
    IF chunks = <<>> THEN "" ELSE Head(chunks) \o Concat(Tail(chunks))

\* how the peripheral cuts what it sends back into notifications
Fragmentations == {"whole", "chunks", "chars"}
Fragments(mode, chunks) ==
    IF mode = "whole" THEN <<Concat(chunks)>>
    ELSE IF mode = "chunks" THEN chunks
    ELSE [i \in 1..Len(Concat(chunks)) |-> SubSeq(Concat(chunks), i, i)]

\* The peripheral sends back the frame it was written, once every chunk of it
\* is on the wire
Echo(mode) ==
    /\ wire # <<>>
    /\ chunkTimers = <<>>
    /\ inbound = <<>>
    /\ gattConnected
    /\ valueListener
    /\ inbound' = Fragments(mode, wire)
    /\ event' = "echo"
    /\ ops' = <<>>
    /\ UNCHANGED <<build, adapterVars, controlMode, linkVars, commandVars, refVars,
                   chunkTimers, buttonVars, payload, wire, readBuffer>>
    /\ Journal

\* what the peripheral reports of its own
TelemetryValues == {"1\n\n2\n", "ok\r\n"}

\* The peripheral sends a report of its own, between two frames, shortly
\* after the link has come up
Telemetry(value) ==
    /\ wire = <<>>
    /\ inbound = <<>>
    /\ gattConnected
    /\ valueListener
    /\ appended < Len(connectLog) + MaxReports
    /\ inbound' = <<value>>
    /\ event' = "telemetry"
    /\ ops' = <<>>
    /\ UNCHANGED <<build, adapterVars, controlMode, linkVars, commandVars, refVars,
                   chunkTimers, buttonVars, payload, wire, readBuffer>>
    /\ Journal

RECURSIVE Rep(_, _)
Rep(c, n) == IF n = 0 THEN "" ELSE c \o Rep(c, n - 1)

\* text lengths around the chunk boundaries
Lengths ==
    {n \in 0..MaxText : \/ n <= 2
                       \/ (n >= MaxWrite - 2 /\ n <= MaxWrite + 1)
                       \/ n >= 2 * MaxWrite - 2}

\* the texts handed to send: digits; digits between a blank and a carriage
\* return; digits with a line separator before the last one
Shapes == {"plain", "padded", "separated"}
Text(shape, n) ==
    IF shape = "padded" /\ n >= 2 THEN " " \o Rep("7", n - 2) \o "\r"
    ELSE IF shape = "separated" /\ n >= 3 THEN Rep("7", n - 2) \o LS \o "7"
    ELSE Rep("7", n)
Texts == {Text(shape, n) : shape \in Shapes, n \in Lengths}

\* The button screen right after a first connect has succeeded
TransportInit ==
    /\ build \in Builds
    /\ controlMode = "buttons"
    /\ isConnected = TRUE
    /\ steering = 0
    /\ motorSpeed = 0
    /\ direction = 1
    /\ steeringRef = 0
    /\ motorSpeedRef = 0
    /\ directionRef = 1
    /\ deviceCache = TRUE
    /\ characteristicCache = TRUE
    /\ intervalRef = TRUE
    /\ timers = 1
    /\ gattConnected = TRUE
    /\ dropListener = TRUE
    /\ valueListener = TRUE
    /\ chains = NoChains
    /\ chunkTimers = <<>>
    /\ steeringDirection = "none"
    /\ steeringInterval = FALSE
    /\ steeringFrames = 0
    /\ sinceSteering = 0
    /\ gamepadPresent = FALSE
    /\ gamepadConnected = FALSE
    /\ gamepadLoopRef = FALSE
    /\ gamepadFrames = 0
    /\ smoothedSteering = 0
    /\ poll = NoPoll
    /\ joystickActive = FALSE
    /\ pointer = AtRest
    /\ accelEnabled = FALSE
    /\ accelThrottle = 0
    /\ smoothedAccel = 0
    /\ tilts = 0
    /\ payload \in Texts
    /\ wire = <<>>
    /\ inbound = <<>>
    /\ readBuffer = ""
    /\ logs = Logged(<<>>, 0, connectLog)
    /\ appended = Len(connectLog)
    /\ journal = TRUE
    /\ event = "notificationsStarted"
    /\ ops = <<Log("Notifications started"), Call("addValueListener"),
               Call("setInterval")>>

TransportNext ==
    \/ SendText
    \/ ChunkTimerFired
    \/ \E mode \in Fragmentations : Echo(mode)
    \/ \E value \in TelemetryValues : Telemetry(value)
    \/ Notify
    \/ Disconnect

TransportSpec == TransportInit /\ [][TransportNext]_vars

----------------------------------------------------------------------------
(* The input adapters: every screen with its handlers, and the effects    *)
(* that hand the command to the transmitter                                *)

InputNext ==
    \/ \E m \in Modes(build) : SelectMode(m)
    \/ Back
    \/ ButtonNext
    \/ JoystickNext
    \/ GamepadNext
    \/ AccelNext
    \/ FlushEffects

InputSpec == Init /\ [][InputNext]_vars

\* The controller screen alone, polled at the pace of the display and after
\* a stall
PadGaps == {16, 100}
\* and with both triggers pressed alike
PadTriggers == Triggers \cup {<<50, 50>>}

PadNext ==
    \/ SelectMode("controller")
    \/ Back
    \/ \E stickX \in Sticks, t \in PadTriggers, deltaTime \in PadGaps :
          gamepadLoop(stickX, t[1], t[2], deltaTime)
    \/ handleGamepadConnected
    \/ handleGamepadDisconnected
    \/ FlushEffects

PadSpec == Init /\ [][PadNext]_vars

\* The joystick screen alone, over more bases and pointer positions: the
\* centre, the rim, outside the circle, and both sides of the deadzone
GridRadii == {70, 100}
JoystickGrid == {<<0, 0>>, <<70, 0>>, <<100, 0>>, <<-120, -120>>, <<30, -40>>,
                 <<-100, 40>>, <<2, -3>>, <<0, 70>>, <<0, -5>>, <<0, -6>>,
                 <<0, 5>>, <<0, 6>>}

JoystickSpecNext ==
    \/ SelectMode("joystick")
    \/ Back
    \/ \E pt \in JoystickGrid, r \in GridRadii :
          handleJoystickStart(pt[1], pt[2], r)
    \/ \E pt \in JoystickGrid, r \in GridRadii :
          handleJoystickMove(pt[1], pt[2], r)
    \/ handleJoystickEnd
    \/ FlushEffects

\* The screen exists in the kart build only
JoystickInit == Init /\ build = "Kart"

JoystickSpec == JoystickInit /\ [][JoystickSpecNext]_vars

----------------------------------------------------------------------------
(* Reading a frame: the fields between the semicolons, without the newline *)

RECURSIVE FieldsFrom(_, _, _)
FieldsFrom(text, i, acc) ==
    IF i > Len(text) THEN <<acc>>
    ELSE LET c == SubSeq(text, i, i)
         IN IF c = "\n" THEN FieldsFrom(text, i + 1, acc)
            ELSE IF c = ";" THEN <<acc>> \o FieldsFrom(text, i + 1, "")
            ELSE FieldsFrom(text, i + 1, acc \o c)
Fields(text) == FieldsFrom(text, 1, "")

\* the neutral frame of the specification: angle 90, speed 0, Brake
NeutralFields == <<"90", "0", "0">>

\* position of the first call named name in ops (0 when there is none)
RECURSIVE FirstFrom(_, _)
FirstFrom(name, i) ==
    IF i > Len(ops) THEN 0
    ELSE IF ops[i].op = name THEN i ELSE FirstFrom(name, i + 1)
First(name) == FirstFrom(name, 1)

\* the link is up as far as the component can tell
Connected ==
    /\ isConnected
    /\ gattConnected
    /\ characteristicCache
    /\ ~Reconnecting

----------------------------------------------------------------------------
(* Claims *)

\* C1: every frame the telemetry transmitter writes with throttle field 0
\* carries direction field 0 (Brake).
C1_ZeroThrottleIsBrake ==
    event = "tick" =>
        \A i \in DOMAIN Written :
            Fields(Written[i].arg)[2] = "0" => Fields(Written[i].arg)[3] = "0"

\* C2: when handleDisconnection has run (the reconnect's gatt.connect is
\* issued), the command the transmitter reads is neutral: angle 90 and
\* throttle 0 (the direction sent with throttle 0 is the subject of C1).
C2_NeutralBeforeReconnect ==
    (event = "handleDisconnection" /\ Issued("gatt.connect")) =>
        LET f == Fields(frame(steeringRef, motorSpeedRef, directionRef))
        IN f[1] = NeutralFields[1] /\ f[2] = NeutralFields[2]

\* C3: while a reconnect is pending, and when a reconnect has failed or an
\* explicit disconnect has run, the command is neutral (angle 90, throttle 0)
\* whatever the input adapters did.
C3_NeutralWhileUnhealthy ==
    (Reconnecting \/ event \in {"reconnectFailed", "disconnect"}) =>
        LET f == Fields(frame(steering, motorSpeed, direction))
        IN f[1] = NeutralFields[1] /\ f[2] = NeutralFields[2]

\* C4: at most one telemetry interval timer is live, and none after an
\* explicit disconnect.
C4_OneTimer ==
    /\ timers <= 1
    /\ event = "disconnect" => timers = 0

\* C5: an interval tick writes only while the link is Connected.
C5_WriteOnlyConnected ==
    (event = "tick" /\ Issued("writeValue")) => Connected

\* C6: connect invoked with the device cached, its GATT connected and the
\* characteristic cached issues neither requestDevice nor gatt.connect.
C6_IdempotentConnect ==
    (event = "connect" /\ deviceCache /\ gattConnected /\ characteristicCache)
        => (~Issued("requestDevice") /\ ~Issued("gatt.connect"))

C6_Witness ==
    /\ event = "connect"
    /\ deviceCache /\ gattConnected /\ characteristicCache
    /\ Issued("startNotifications")

\* C7 as claimed: a disconnect that found a cached device clears the
\* characteristic and keeps the device handle.
C7_DeviceRetained ==
    (event = "disconnect" /\ Issued("removeDropListener"))
        => (~characteristicCache /\ deviceCache)

\* C7 as amended: disconnect clears the characteristic and the device handle,
\* and a connect request that comes next starts with device discovery, before
\* any GATT connect.
C7_DeviceCleared ==
    [][ /\ event' = "disconnect" => (~characteristicCache' /\ ~deviceCache')
        /\ (event = "disconnect" /\ event' = "connect")
              => /\ \E i \in DOMAIN ops' : ops'[i].op = "requestDevice"
                 /\ \A i \in DOMAIN ops' : ops'[i].op # "gatt.connect" ]_vars

C7_Witness ==
    /\ event = "disconnect"
    /\ Issued("removeDropListener")
    /\ Issued("removeValueListener")
    /\ ~deviceCache

\* C8: a disconnect on a writable link clears the interval, then writes
\* exactly one neutral frame (90;0;0), then tears the GATT connection down.
C8_DisconnectOrder ==
    (event = "disconnect" /\ Issued("gatt.disconnect")
                          /\ Issued("removeValueListener"))
        => /\ Len(Written) = 1
           /\ Fields(Written[1].arg) = NeutralFields
           /\ First("clearInterval") > 0
           /\ First("clearInterval") < First("writeValue")
           /\ First("writeValue") < First("gatt.disconnect")

\* C9: handleDisconnection issues exactly one gatt.connect and no discovery;
\* when the reconnect fails isConnected is false and nothing is retried; no
\* other step than a connect request or a drop issues gatt.connect.
C9_OneReconnect ==
    /\ event = "handleDisconnection"
          => (Count("gatt.connect") = 1 /\ ~Issued("requestDevice"))
    /\ event = "reconnectFailed"
          => (~isConnected /\ ~Issued("gatt.connect") /\ ~Issued("requestDevice"))
    /\ Issued("gatt.connect")
          => event \in {"connect", "deviceSelected", "handleDisconnection"}

C9_Witness ==
    /\ event = "reconnectFailed"
    /\ ~isConnected
    /\ timers > 0

\* C10: a failing operation of a connect request leaves isConnected and the
\* interval timers as they were, appends a log entry and issues no call (no
\* retry).
C10_ConnectFailure ==
    [][ event' = "connectFailed"
          => /\ isConnected' = isConnected
             /\ timers' = timers
             /\ intervalRef' = intervalRef
             /\ Len(ops') = 1
             /\ ops'[1].op = "log"
             /\ \A k \in ChainKeys : chains'[k] <= chains[k] ]_vars

C10_Witness ==
    /\ event = "connectFailed"
    /\ ~isConnected
    /\ timers = 0
    /\ InFlight = 0

----------------------------------------------------------------------------
(* Claims on the transport *)

\* the chunks of the frame send was handed: the one written at once and the
\* ones left to its timers
SendChunks ==
    [i \in DOMAIN Written |-> Written[i].arg]
        \o [i \in DOMAIN chunkTimers |-> chunkTimers[i].text]

\* the pieces of a text between its newlines
RECURSIVE LinesFrom(_, _, _)
LinesFrom(text, i, acc) ==
    IF i > Len(text) THEN <<acc>>
    ELSE IF SubSeq(text, i, i) = "\n" THEN <<acc>> \o LinesFrom(text, i + 1, "")
    ELSE LinesFrom(text, i + 1, acc \o SubSeq(text, i, i))
Lines(text) == LinesFrom(text, 1, "")

\* the positions of a text that hold no white space
Inked(t) == {i \in 1..Len(t) : SubSeq(t, i, i) \notin WhiteSpace}
\* a text from its first to its last character that is no white space
Stripped(t) ==
    IF Inked(t) = {} THEN ""
    ELSE SubSeq(t, CHOOSE i \in Inked(t) : \A j \in Inked(t) : i <= j,
                   CHOOSE i \in Inked(t) : \A j \in Inked(t) : i >= j)

\* the records logged as received since the last frame was sent
LastOut ==
    CHOOSE i \in 0..Len(logs) :
        /\ i > 0 => logs[i].type = "out"
        /\ \A j \in (i + 1)..Len(logs) : logs[j].type # "out"
Received == [k \in 1..(Len(logs) - LastOut) |-> logs[LastOut + k].message]

\* C11: a send (by an interval tick or by a caller) with an empty text, or
\* while the link is not Connected, issues no call (no write, no log entry)
\* and leaves no chunk timer.
C11_SilentUnlessConnected ==
    (event \in {"tick", "send"}
        /\ (~Connected \/ (event = "send" /\ payload = "")))
        => (ops = <<>> /\ chunkTimers = <<>>)

C16_BufferDrained ==
    [][ event' = "notify"
          => LET ls == Lines(readBuffer \o Head(inbound))
                 kept == SelectSeq(SubSeq(ls, 1, Len(ls) - 1),
                                   LAMBDA l : Inked(l) # {})
             IN /\ readBuffer' = ls[Len(ls)]
                /\ \A i \in 1..Len(readBuffer') :
                      SubSeq(readBuffer', i, i) # "\n"
                /\ Len(ops') = Len(kept)
                /\ \A i \in DOMAIN kept :
                      ops'[i].op = "log" /\ ops'[i].arg = Stripped(kept[i]) ]_vars

C16_Witness ==
    /\ event = "notify"
    /\ Len(ops) = 2
    /\ readBuffer = ""

\* C17: the log holds the entries of the last min(n, 20) of the n calls of
\* log, in the order of the calls.
C17_LogKeepsLatest ==
    /\ Len(logs) = Min(appended, LogKeep)
    /\ \A i \in DOMAIN logs : logs[i].id = appended - Len(logs) + i

C17_Witness ==
    /\ appended > LogKeep
    /\ Len(logs) = LogKeep
    /\ event = "notify"

\* C18: send writes chunk 0 itself and leaves chunk i > 0 to a timer of
\* i x 100 ms; each timer that writes, writes the chunk that follows the ones
\* already written.
C18_ChunkOrder ==
    /\ (event = "send" /\ chunkTimers # <<>>)
          => /\ Len(Written) = 1
             /\ Written[1].arg = Chunks(payload \o "\n")[1]
             /\ \A i \in DOMAIN chunkTimers :
                   /\ chunkTimers[i].delay = i * ChunkDelay
                   /\ chunkTimers[i].text = Chunks(payload \o "\n")[i + 1]
    /\ (event = "chunkTimer" /\ Written # <<>>)
          => /\ Written[1].arg = Chunks(payload \o "\n")[Len(wire)]
             /\ Len(wire) + Len(chunkTimers) = Len(Chunks(payload \o "\n"))

C18_Witness ==
    /\ event = "chunkTimer"
    /\ Written # <<>>
    /\ Len(wire) = 3
    /\ chunkTimers = <<>>

----------------------------------------------------------------------------
(* Claims on the input adapters *)

\* C14: the steering is within [-90, 90] and the throttle within [0, 100],
\* and the frame built from what the transmitter reads has its angle in
\* 0..180, its speed in 0..100 and its direction in {-1, 0, 1}.
C14_CommandInRange ==
    /\ steering \in -SteerMax..SteerMax
    /\ motorSpeed \in 0..SpeedMax
    /\ direction \in {-1, 0, 1}
    /\ LET f == Fields(frame(steeringRef, motorSpeedRef, directionRef))
       IN /\ f[1] \in {ToString(a) : a \in 0..(SteerMax + ServoOffset)}
          /\ f[2] \in {ToString(v) : v \in 0..SpeedMax}
          /\ f[3] \in {"-1", "0", "1"}

C14_Witness ==
    /\ event = "orientation"
    /\ Abs(smoothedAccel) > GammaMax * 100
    /\ Abs(steering) = SteerMax

\* C15: when a mode has been selected or left, the command is neutral: angle
\* 90 and throttle 0 (the direction sent with throttle 0 is the subject of
\* C1).
C15_ModeSwitchResets ==
    event \in {"selectMode", "back"} =>
        LET f == Fields(frame(steering, motorSpeed, direction))
        IN f[1] = NeutralFields[1] /\ f[2] = NeutralFields[2]

\* C20: no frame of the button hold loop is pending, and none runs, outside
\* the button screen; no frame of the gamepad loop is pending, and none runs,
\* outside the controller screen.
C20_LoopsCancelled ==
    /\ controlMode # "buttons" => ~steeringInterval
    /\ event = "animateSteering" => controlMode = "buttons"
    /\ controlMode # "controller" => ~gamepadLoopRef
    /\ event = "gamepadLoop" => controlMode = "controller"

----------------------------------------------------------------------------
(* Claims on failures and on concurrent requests *)

\* C21: when the write of the neutral frame issued by disconnect fails,
\* disconnect has still stopped the timer it holds, cleared the cached
\* characteristic, set isConnected false and reset the command, and the
\* failure reaches nobody: no unhandled error is reported.
C21_WriteFailureSwallowed ==
    (event = "disconnect" /\ \E i \in DOMAIN ops : ops[i].type = "rejected") =>
        /\ ~intervalRef
        /\ ~characteristicCache
        /\ ~isConnected
        /\ Command = SafeCommand
        /\ ~Issued("unhandledrejection")

\* pending requestDevice operations
DiscoveriesInFlight ==
    chains[<<"connect", "discover">>] + chains[<<"reconnect", "discover">>]

\* pending gatt.connect, getPrimaryService and getCharacteristic operations
GattInFlight ==
    LET of(kind) == chains[<<kind, "gattConnect">>] + chains[<<kind, "service">>]
                        + chains[<<kind, "characteristic">>]
    IN of("connect") + of("reconnect")

\* C22: at most one device discovery and at most one GATT connect or
\* endpoint resolution is in flight.
C22_OneInFlight ==
    /\ DiscoveriesInFlight <= 1
    /\ GattInFlight <= 1

\* nothing of a link is left: no cached characteristic, no notification
\* listener, no open GATT connection
LinkClosed == ~characteristicCache /\ ~valueListener /\ ~gattConnected

\* an operation awaited by a reconnect chain was settled in this step
ReconnectSettled ==
    /\ event' # "handleDisconnection"
    /\ \E stage \in Stages :
          chains'[<<"reconnect", stage>>] # chains[<<"reconnect", stage>>]

\* C23: once disconnect has cleared the device while a reconnect was in
\* flight, and until connect is invoked again, the operations of that
\* reconnect settle without caching a characteristic, subscribing to
\* notifications or opening a GATT connection.
C23_DisconnectWinsOverReconnect ==
    [][ (ReconnectSettled /\ ~deviceCache /\ ConnectChains = 0 /\ LinkClosed)
            => LinkClosed' ]_vars

\* the link is up and the transmitter runs
LinkUp == gattConnected /\ characteristicCache /\ valueListener /\ timers > 0

\* the reconnect is over, one way or the other
ReconnectOver == ~Reconnecting /\ (~isConnected \/ LinkUp)

\* no further gattserverdisconnected event is handled
NoDrop == event' # "handleDisconnection"

----------------------------------------------------------------------------
(* Claims on the adapters, one by one *)

\* steering moved by one step towards d and kept within the stops
Stepped(prev, d) ==
    LET to == IF d = "left" THEN prev - SteerStep ELSE prev + SteerStep
    IN IF to > SteerMax THEN SteerMax
       ELSE IF to < -SteerMax THEN -SteerMax
       ELSE to

\* C25: a press moves the steering one step of 4 towards the arrow at once;
\* a frame of the hold loop runs only while an arrow is held, moves the
\* steering one more step, within [-90, 90], when 16 ms or more have passed
\* since the last step, and leaves it alone otherwise; the release cancels
\* the loop.
C25_HoldSteps ==
    [][ /\ event' = "startSteering" =>
              steering' = Stepped(steering, steeringDirection')
        /\ event' = "animateSteering" =>
              /\ steeringDirection # "none"
              /\ sinceSteering' < FrameMs
              /\ steering' = IF sinceSteering' = 0
                             THEN Stepped(steering, steeringDirection)
                             ELSE steering
        /\ event' = "stopSteering" =>
              (~steeringInterval' /\ steeringDirection' = "none"
                 /\ steering' = steering) ]_vars

\* a frame that steps at the right stop
C25_Witness ==
    /\ event = "animateSteering"
    /\ steeringDirection = "right"
    /\ sinceSteering = 0
    /\ steering = SteerMax

\* n is the nearest integer to num / sqrt(q), halves rounded up
Near(n, num, q) == LeSqrt(2 * n - 1, q, 2 * num) /\ ~LeSqrt(2 * n + 1, q, 2 * num)

\* C26: with the pointer at (dx, dy) and the displacement limited to
\* maxRadius, steering is dx / maxRadius * 90 rounded; with t the rounded
\* -dy / maxRadius * 100, t > 5 gives throttle t Forward, t < -5 gives
\* throttle |t| Backward, and otherwise throttle 0 with Brake.  The centre
\* gives {0, 0, Brake}, full right {90, 0, Brake}, and the release
\* {0, 0, Brake}.
C26_JoystickCommand ==
    /\ event \in {"joystickStart", "joystickMove"} =>
          LET dx == pointer.dx
              dy == pointer.dy
              r == pointer.maxRadius
              q == dx * dx + dy * dy
              \* the square of the divisor: the radius, or the distance of a
              \* pointer outside the circle
              reach == IF q > r * r THEN q ELSE r * r
          IN /\ Near(steering, SteerMax * dx, reach)
             /\ \E t \in -SpeedMax..SpeedMax :
                   /\ Near(t, -SpeedMax * dy, reach)
                   /\ <<motorSpeed, direction>> =
                         IF t > JoyDeadzone THEN <<t, 1>>
                         ELSE IF t < -JoyDeadzone THEN <<-t, -1>>
                         ELSE <<0, 0>>
             /\ (dx = 0 /\ dy = 0) => Command = <<0, 0, 0>>
             /\ (dx = r /\ dy = 0) => Command = <<SteerMax, 0, 0>>
    /\ event = "joystickEnd" => Command = <<0, 0, 0>>

\* a pointer outside the circle, pushed forward and to the left
C26_Witness ==
    /\ event = "joystickMove"
    /\ pointer.dx * pointer.dx + pointer.dy * pointer.dy
           > pointer.maxRadius * pointer.maxRadius
    /\ steering < 0
    /\ direction = 1

\* how far the smoothed steering is from the target of a stick position
Away(smoothed, stickX) == Abs(TargetSteering(stickX) - smoothed)

\* C27: a poll that reads a gamepad moves the smoothed steering towards the
\* target by 300 * deltaTime / 1000 degrees, or onto the target when it is
\* nearer than that: never further, never past the target, and a smoothed
\* steering on the target stays on it.
C27_RateLimited ==
    [][ (event' = "gamepadLoop" /\ gamepadPresent) =>
          LET target == TargetSteering(poll'.stickX)
              \* 300 * deltaTime / 1000 degrees, in tenths of a degree
              most == (SmoothSpeed * poll'.deltaTime * 10) \div 1000
              before == Away(smoothedSteering, poll'.stickX)
              after == Away(smoothedSteering', poll'.stickX)
          IN /\ Abs(smoothedSteering' - smoothedSteering) <= most
             /\ after = IF before <= most THEN 0 ELSE before - most
             /\ \/ smoothedSteering <= smoothedSteering'
                      /\ smoothedSteering' <= target
                \/ target <= smoothedSteering'
                      /\ smoothedSteering' <= smoothedSteering ]_vars

\* the target reached after polls that were rate limited
C27_Witness ==
    /\ event = "gamepadLoop"
    /\ poll.deltaTime = 16
    /\ poll.stickX = 55
    /\ smoothedSteering = TargetSteering(55)

\* C28: a poll that reads a gamepad sets throttle r2 Forward when r2 > l2,
\* throttle l2 Backward when l2 > r2, and throttle 0 with Brake when they are
\* equal.
C28_Triggers ==
    (event = "gamepadLoop" /\ gamepadPresent) =>
        <<motorSpeed, direction>> =
            IF poll.r2 > poll.l2 THEN <<poll.r2, 1>>
            ELSE IF poll.l2 > poll.r2 THEN <<poll.l2, -1>>
            ELSE <<0, 0>>

\* the frame of the command is the neutral frame 90;0;0
NeutralCommand == Fields(frame(steering, motorSpeed, direction)) = NeutralFields

\* C29: the gamepaddisconnected event leaves the neutral command, and on
\* the controller screen the command stays neutral for as long as no gamepad
\* is present.
C29_NeutralWithoutGamepad ==
    [][ /\ event' = "gamepadDisconnected" => NeutralCommand'
        /\ ( /\ NeutralCommand
             /\ controlMode = "controller" /\ controlMode' = "controller"
             /\ ~gamepadPresent /\ ~gamepadPresent' ) => NeutralCommand' ]_vars

\* disconnect removes the drop listener before it tears the connection down
ListenerRemovedFirst ==
    (event = "disconnect" /\ Issued("gatt.disconnect")) =>
        (First("removeDropListener") > 0
            /\ First("removeDropListener") < First("gatt.disconnect"))

\* C30: disconnect removes the drop listener before gatt.disconnect(); no
\* reconnect is started for a device that disconnect has dropped; and from
\* a disconnect on, while connect has not been invoked, the link stays
\* closed.
C30_DisconnectStaysDisconnected ==
    [][ /\ ListenerRemovedFirst'
        /\ event' = "handleDisconnection" => deviceCache
        /\ ( /\ ~deviceCache /\ ConnectChains = 0
             /\ ~deviceCache' /\ ConnectChains' = 0
             /\ LinkClosed ) => LinkClosed' ]_vars

----------------------------------------------------------------------------
(* Claims on the frames of the transmitter and on the screens' own state *)

\* The kart driven over a link: connect() and its chain, the transmitter,
\* and the joystick and button screens with the way back to the menu
DriveNext ==
    \/ Connect
    \/ DeviceSelected
    \/ GattConnected("connect")
    \/ ServiceResolved("connect")
    \/ CharacteristicResolved("connect")
    \/ NotificationsStarted("connect")
    \/ Tick
    \/ FlushEffects
    \/ \E m \in {"joystick", "buttons"} \cap Modes(build) : SelectMode(m)
    \/ Back
    \/ \E pt \in JoystickGrid, r \in GridRadii :
          handleJoystickStart(pt[1], pt[2], r)
    \/ handleJoystickEnd
    \/ \E v \in SliderValues : SetMotorSpeed(v)
    \/ ToggleDirection

DriveSpec == JoystickInit /\ [][DriveNext]_vars

\* C31: every frame the telemetry transmitter writes with a throttle field
\* other than 0 carries direction field 1 (Forward) or -1 (Backward).
C31_ThrottleHasDirection ==
    event = "tick" =>
        \A i \in DOMAIN Written :
            Fields(Written[i].arg)[2] # "0" =>
                Fields(Written[i].arg)[3] \in {"1", "-1"}

\* C32: on the tilt screen the command agrees with the bidirectional
\* throttle control: motorSpeed is |accelThrottle| and direction is its
\* sign.
C32_ThrottleControlAgrees ==
    controlMode = "accel" =>
        /\ motorSpeed = Abs(accelThrottle)
        /\ direction = Sign(accelThrottle)

\* C33: at most one frame of gamepadLoop is requested at any time, and one
\* is requested only on the controller screen.
C33_OneGamepadFrame ==
    /\ gamepadFrames <= 1
    /\ gamepadFrames > 0 => controlMode = "controller"

\* the effect has run again on the controller screen, after a gamepad was
\* plugged in
C33_Witness ==
    /\ event = "gamepadConnected"
    /\ controlMode = "controller"
    /\ Issued("log") /\ Len(ops) = 2
    /\ gamepadFrames = 1

\* The button screen alone
ButtonSpecNext ==
    \/ SelectMode("buttons")
    \/ Back
    \/ ButtonNext
    \/ FlushEffects

ButtonSpec == Init /\ [][ButtonSpecNext]_vars

\* C34: at most one frame of animateSteering is requested at any time; a
\* press leaves exactly one, whether or not another press was active, and
\* stopSteering leaves none and clears the held direction.
C34_OneSteeringFrame ==
    /\ steeringFrames <= 1
    /\ event = "startSteering" => steeringFrames = 1
    /\ event = "stopSteering" =>
          (steeringFrames = 0 /\ steeringDirection = "none")

\* right pressed after left: back at the centre with one frame requested
C34_Witness ==
    /\ event = "startSteering"
    /\ steeringDirection = "right"
    /\ steering = 0
    /\ steeringFrames = 1

\* the handlers that reset the command for safety
SafetyResets == {"handleDisconnection", "disconnect", "gamepadDisconnected"}

\* C35: a safety reset also resets the smoothing state of the gamepad, and
\* the first poll after a controller disconnect that finds the stick
\* centred publishes steering 0.
C35_ResetClearsSmoothing ==
    [][ /\ event' \in SafetyResets => smoothedSteering' = 0
        /\ ( /\ event \in {"gamepadDisconnected", "gamepadConnected"}
             /\ event' = "gamepadLoop"
             /\ gamepadPresent
             /\ TargetSteering(poll'.stickX) = 0 ) => steering' = 0 ]_vars

\* C36: the frame of the refs with its newline is at most 20 characters
\* long, so every tick of the transmitter issues at most one write, of at
\* most 20 characters, and schedules no chunk timer.
C36_FrameIsOneChunk ==
    [][ /\ (Len(frame(steeringRef, motorSpeedRef, directionRef)) + 1
                <= MaxWrite)'
        /\ event' = "tick" =>
              /\ Len(Written') <= 1
              /\ \A i \in DOMAIN Written' :
                    Len(Written'[i].arg) <= MaxWrite
              /\ chunkTimers' = chunkTimers ]_vars

\* the longest frame: full right, full throttle, backward
C36_Witness ==
    /\ event = "tick"
    /\ Written = <<Write("180;100;-1\n")>>

====
